---- MODULE Spec2Model ----
(***************************************************************************)
(* Model of backend/run.py: the lazily initialised shared model handle     *)
(* (load_model, double-checked locking on model_lock) and the /start_chat  *)
(* and /chat request handlers with the bounded chat history.               *)
(*                                                                         *)
(* Program counters are named after the line of run.py the thread is       *)
(* about to execute.                                                       *)
(***************************************************************************)
EXTENDS Integers, Sequences, FiniteSets, TLC

VARIABLES
    model,        \* run.py:46   global model handle (None or an instance)
    model_lock,   \* run.py:47   threading.Lock: NoOwner or the holding thread
    lpc,          \* position of each thread inside load_model
    ltmp,         \* the instance ChatGroq(...) returned, before it is bound to model
    lret,         \* what the thread's last load_model call returned
    lobs,         \* observation of each thread's current load_model call
    constructed,  \* number of ChatGroq instances constructed so far
    returned,     \* every value a load_model call has returned so far
    db,           \* the persistence service: stored history per chat id
    req,          \* each worker's /chat request: locals of chat / process_user_message
    obs,          \* observation of each worker's current /chat request
    issued,       \* the chat ids /start_chat has returned, in order
    now,          \* the wall clock, in seconds
    nreq,         \* number of requests received
    nfault,       \* number of failures of external services so far
    log           \* per chat id, the exchanges process_user_message appended, in order,
                  \* and the number of its writes that failed

loadVars == <<model, model_lock, lpc, ltmp, lret, lobs, constructed, returned>>
chatVars == <<db, req, obs, issued, now, nreq, nfault, log>>
vars == <<model, model_lock, lpc, ltmp, lret, lobs, constructed, returned,
          db, req, obs, issued, now, nreq, nfault, log>>

(***************************************************************************)
(* Bounds of the model                                                     *)
(***************************************************************************)
NLoaders == 3
MaxCalls == 2
NWorkers == 2
MaxRequests == 2
MaxClock == 1
PreExtra == 2
SeqExtra == 2
SeqFaults == 1
MaxFaults == 2

(***************************************************************************)
(* Program constants and values                                            *)
(***************************************************************************)
None == 0
NoOwner == 0
HistoryLimit == 50
APOLOGY == "Sorry, I encountered an error while processing your request."
ERR_REQUIRED == "chat_id and user_message are required"
ERR_GENERIC == "An error occurred while processing your request."
PyNone == "<None>"

Loaders == 1..NLoaders
Workers == 1..NWorkers
ChatIds == {"c1", "c2"}

\* Python truthiness of a request field: None and "" are falsy.
Falsy(v) == v = PyNone \/ v = ""

Min(a, b) == IF a <= b THEN a ELSE b

\* Python's s[-n:] for n > 0.
LastN(s, n) == IF Len(s) <= n THEN s ELSE SubSeq(s, Len(s) - n + 1, Len(s))

(***************************************************************************)
(* load_model (run.py:50-65)                                               *)
(***************************************************************************)
NewLoadObs(calls, init) ==
    [calls |-> calls,          \* load_model calls the thread has started
     attempts |-> 0,           \* ChatGroq(...) evaluations in the current call
     failed |-> FALSE,         \* the current call's ChatGroq(...) raised
     locked |-> FALSE,         \* the current call acquired model_lock
     initAtCall |-> init]      \* model was already set when the call started

InitLoad ==
    /\ model = None
    /\ model_lock = NoOwner
    /\ lpc = [t \in Loaders |-> "idle"]
    /\ ltmp = [t \in Loaders |-> None]
    /\ lret = [t \in Loaders |-> None]
    /\ lobs = [t \in Loaders |-> NewLoadObs(0, FALSE)]
    /\ constructed = 0
    /\ returned = {}

\* A thread calls load_model().
LoadCall(t) ==
    /\ lpc[t] \in {"idle", "returned", "raised"}
    /\ lobs[t].calls < MaxCalls
    /\ lpc' = [lpc EXCEPT ![t] = "l52"]
    /\ ltmp' = [ltmp EXCEPT ![t] = None]
    /\ lret' = [lret EXCEPT ![t] = None]
    /\ lobs' = [lobs EXCEPT ![t] = NewLoadObs(lobs[t].calls + 1, model # None)]
    /\ UNCHANGED <<model, model_lock, constructed, returned>>
    /\ UNCHANGED chatVars

\* Variant of line 52 that takes the lock on every call.
L52AlwaysLocks(t) ==
    /\ lpc[t] = "l52"
    /\ lpc' = [lpc EXCEPT ![t] = "l54"]
    /\ UNCHANGED <<model, model_lock, ltmp, lret, lobs, constructed, returned>>
    /\ UNCHANGED chatVars

\* line 52: if model is None (the unlocked check)
L52(t) ==
    /\ lpc[t] = "l52"
    /\ lpc' = [lpc EXCEPT ![t] = IF model = None THEN "l54" ELSE "l65"]
    /\ UNCHANGED <<model, model_lock, ltmp, lret, lobs, constructed, returned>>
    /\ UNCHANGED chatVars

\* line 54: with model_lock (acquire; blocks while another thread holds it)
L54(t) ==
    /\ lpc[t] = "l54"
    /\ model_lock = NoOwner
    /\ model_lock' = t
    /\ lpc' = [lpc EXCEPT ![t] = "l55"]
    /\ lobs' = [lobs EXCEPT ![t].locked = TRUE]
    /\ UNCHANGED <<model, ltmp, lret, constructed, returned>>
    /\ UNCHANGED chatVars

\* Variant of line 55 without the check under the lock.
L55NoRecheck(t) ==
    /\ lpc[t] = "l55"
    /\ lpc' = [lpc EXCEPT ![t] = "l56"]
    /\ UNCHANGED <<model, model_lock, ltmp, lret, lobs, constructed, returned>>
    /\ UNCHANGED chatVars

\* line 55: if model is None (the check under the lock)
L55(t) ==
    /\ lpc[t] = "l55"
    /\ lpc' = [lpc EXCEPT ![t] = IF model = None THEN "l56" ELSE "exit"]
    /\ UNCHANGED <<model, model_lock, ltmp, lret, lobs, constructed, returned>>
    /\ UNCHANGED chatVars

\* lines 56-60: ChatGroq(...) is evaluated; it returns a new instance or raises.
L56(t) ==
    /\ lpc[t] = "l56"
    /\ \/ /\ ltmp' = [ltmp EXCEPT ![t] = constructed + 1]
          /\ constructed' = constructed + 1
          /\ lobs' = [lobs EXCEPT ![t].attempts = @ + 1]
          /\ lpc' = [lpc EXCEPT ![t] = "l56s"]
       \/ /\ lobs' = [lobs EXCEPT ![t].attempts = @ + 1, ![t].failed = TRUE]
          /\ lpc' = [lpc EXCEPT ![t] = "exitx"]
          /\ UNCHANGED <<ltmp, constructed>>
    /\ UNCHANGED <<model, model_lock, lret, returned>>
    /\ UNCHANGED chatVars

\* line 56: the new instance is bound to the global (line 61 logs)
L56Store(t) ==
    /\ lpc[t] = "l56s"
    /\ model' = ltmp[t]
    /\ lpc' = [lpc EXCEPT ![t] = "exit"]
    /\ UNCHANGED <<model_lock, ltmp, lret, lobs, constructed, returned>>
    /\ UNCHANGED chatVars

\* Variant of the with block's exit that keeps the lock when the body raised.
WithExitKeepsLockOnError(t) ==
    /\ lpc[t] \in {"exit", "exitx"}
    /\ model_lock' = IF lpc[t] = "exit" THEN NoOwner ELSE model_lock
    /\ lpc' = [lpc EXCEPT ![t] = IF lpc[t] = "exit" THEN "l65" ELSE "l62"]
    /\ UNCHANGED <<model, ltmp, lret, lobs, constructed, returned>>
    /\ UNCHANGED chatVars

\* line 54: the with statement releases the lock, on normal exit and on an exception
WithExit(t) ==
    /\ lpc[t] \in {"exit", "exitx"}
    /\ model_lock' = NoOwner
    /\ lpc' = [lpc EXCEPT ![t] = IF lpc[t] = "exit" THEN "l65" ELSE "l62"]
    /\ UNCHANGED <<model, ltmp, lret, lobs, constructed, returned>>
    /\ UNCHANGED chatVars

\* Variant of lines 62-64 that logs the error and does not re-raise it.
L62Swallow(t) ==
    /\ lpc[t] = "l62"
    /\ lpc' = [lpc EXCEPT ![t] = "l65"]
    /\ UNCHANGED <<model, model_lock, ltmp, lret, lobs, constructed, returned>>
    /\ UNCHANGED chatVars

\* lines 62-64: except Exception: log, raise e
L62(t) ==
    /\ lpc[t] = "l62"
    /\ lpc' = [lpc EXCEPT ![t] = "raised"]
    /\ UNCHANGED <<model, model_lock, ltmp, lret, lobs, constructed, returned>>
    /\ UNCHANGED chatVars

\* line 65: return model
L65(t) ==
    /\ lpc[t] = "l65"
    /\ lret' = [lret EXCEPT ![t] = model]
    /\ returned' = returned \cup {model}
    /\ lpc' = [lpc EXCEPT ![t] = "returned"]
    /\ UNCHANGED <<model, model_lock, ltmp, lobs, constructed>>
    /\ UNCHANGED chatVars

(***************************************************************************)
(* Values of the chat path                                                 *)
(***************************************************************************)
\* One stored exchange (run.py:100-104).
Exchange(ts, um, br) == [timestamp |-> ts, user_message |-> um, bot_response |-> br]

\* The text of the n-th /chat request, and the answer the retrieval chain gives to a text.
Text(n) == "m" \o ToString(n)
Answer(um) == "re:" \o um

\* A history of n exchanges stored before the process started.
OldHistory(n) == [k \in 1..n |-> Exchange(0, "old" \o ToString(k), "re:old")]

\* The persistence service (app.data): a table from chat id to the stored list.
NoRow == [present |-> FALSE, history |-> <<>>]
Row(h) == [present |-> TRUE, history |-> h]

\* retrieve_chat_history: the stored list, or nothing when the chat id has no row.
retrieve_chat_history(table, chat_id) ==
    IF table[chat_id].present
    THEN [none |-> FALSE, value |-> table[chat_id].history]
    ELSE [none |-> TRUE, value |-> <<>>]

\* store_chat_history: the row of chat_id is replaced by the given list.
store_chat_history(table, chat_id, history) ==
    [table EXCEPT ![chat_id] = Row(history)]

\* Python's `x or []` on what retrieve_chat_history returned (run.py:139).
OrEmptyList(r) == IF r.none \/ r.value = <<>> THEN <<>> ELSE r.value

\* The JSON bodies a client may POST to /chat as its n-th request.
NonObjectBody == [isobj |-> FALSE, chat_id |-> PyNone, user_message |-> PyNone]
Bodies(n) ==
    {[isobj |-> TRUE, chat_id |-> c, user_message |-> Text(n)] : c \in ChatIds \cup {PyNone, ""}}
    \cup {[isobj |-> TRUE, chat_id |-> "c1", user_message |-> m] : m \in {PyNone, ""}}
    \cup {NonObjectBody}
ValidBodies(n) == {[isobj |-> TRUE, chat_id |-> "c1", user_message |-> Text(n)]}

NoResp == [status |-> 0, error |-> "", bot_response |-> "", chat_history |-> <<>>]
Resp200(br, h) == [status |-> 200, error |-> "", bot_response |-> br, chat_history |-> h]
RespError(code, msg) == [status |-> code, error |-> msg, bot_response |-> "", chat_history |-> <<>>]

NewReq(json) ==
    [pc |-> "l129", json |-> json, chat_id |-> PyNone, user_message |-> PyNone,
     chat_history |-> <<>>, bot_response |-> "", timestamp |-> 0, resp |-> NoResp]
IdleReq == [NewReq(NonObjectBody) EXCEPT !.pc = "idle"]

NewObs ==
    [steps |-> <<>>,     \* the calls the request made, in order, with their outcome
     absent |-> FALSE,   \* retrieve_chat_history found no row at line 139
     loaded |-> <<>>,    \* the history line 139 produced
     asked |-> <<>>,     \* the history handed to the retrieval chain
     handed |-> <<>>]    \* the list handed to store_chat_history

Count(steps, names) == Cardinality({i \in 1..Len(steps) : steps[i] \in names})

InitChat(rows) ==
    /\ db \in {[c \in ChatIds |-> IF c = "c1" THEN r ELSE NoRow] : r \in rows}
    /\ req = [t \in Workers |-> IdleReq]
    /\ obs = [t \in Workers |-> NewObs]
    /\ issued = <<>>
    /\ now = 0
    /\ nreq = 0
    /\ nfault = 0
    /\ log = [c \in ChatIds |-> [appended |-> <<>>, failed |-> 0]]

\* After the module-level initialisation (run.py:68-75) the handle is loaded.
InitLoaded ==
    /\ model = 1
    /\ model_lock = NoOwner
    /\ lpc = [t \in Loaders |-> "idle"]
    /\ ltmp = [t \in Loaders |-> None]
    /\ lret = [t \in Loaders |-> None]
    /\ lobs = [t \in Loaders |-> NewLoadObs(0, FALSE)]
    /\ constructed = 1
    /\ returned = {1}

(***************************************************************************)
(* GET /start_chat (run.py:90-93, 121-124)                                 *)
(***************************************************************************)
\* Variant of start_new_chat that creates an empty row for the new id.
start_new_chatTouchesStore(id) ==
    /\ issued' = Append(issued, id)
    /\ db' = store_chat_history(db, id, <<>>)

\* lines 90-93: uuid.uuid4() draws the id; the storage is not touched.
start_new_chat(id) ==
    /\ issued' = Append(issued, id)
    /\ UNCHANGED db

\* A worker thread between two /chat requests serves a /start_chat request.
start_chat(t, maxReq) ==
    /\ req[t].pc \in {"idle", "done", "uncaught"}
    /\ nreq < maxReq
    /\ nreq' = nreq + 1
    /\ \E id \in ChatIds : start_new_chat(id)
    /\ UNCHANGED <<req, obs, now, nfault, log>>
    /\ UNCHANGED loadVars

(***************************************************************************)
(* POST /chat (run.py:127-150) and process_user_message (run.py:96-115)    *)
(***************************************************************************)
\* A worker thread receives the next /chat request.
ChatRecv(t, maxReq, valid) ==
    /\ req[t].pc \in {"idle", "done", "uncaught"}
    /\ nreq < maxReq
    /\ \E json \in (IF valid THEN ValidBodies(nreq + 1) ELSE Bodies(nreq + 1)) :
          req' = [req EXCEPT ![t] = NewReq(json)]
    /\ obs' = [obs EXCEPT ![t] = NewObs]
    /\ nreq' = nreq + 1
    /\ UNCHANGED <<db, issued, now, nfault, log>>
    /\ UNCHANGED loadVars

\* lines 129-131: data = request.json; data.get(...). A body that is no JSON
\* object has no get: the AttributeError is raised outside the try of line 137.
L129(t) ==
    /\ req[t].pc = "l129"
    /\ IF req[t].json.isobj
       THEN req' = [req EXCEPT ![t].chat_id = req[t].json.chat_id,
                               ![t].user_message = req[t].json.user_message,
                               ![t].pc = "l133"]
       ELSE req' = [req EXCEPT ![t].pc = "uncaught"]
    /\ UNCHANGED <<db, obs, issued, now, nreq, nfault, log>>
    /\ UNCHANGED loadVars

\* Variant of line 133 with `and` for `or`.
MissingBoth(chat_id, user_message) == Falsy(chat_id) /\ Falsy(user_message)

\* line 133: if not chat_id or not user_message
Missing(chat_id, user_message) == Falsy(chat_id) \/ Falsy(user_message)

\* lines 133-135: the validation and its 400 response
L133(t) ==
    /\ req[t].pc = "l133"
    /\ IF Missing(req[t].chat_id, req[t].user_message)
       THEN req' = [req EXCEPT ![t].resp = RespError(400, ERR_REQUIRED), ![t].pc = "done"]
       ELSE req' = [req EXCEPT ![t].pc = "l139"]
    /\ UNCHANGED <<db, obs, issued, now, nreq, nfault, log>>
    /\ UNCHANGED loadVars

\* Variant of line 139 in which a session without a stored row is an error.
L139MissingRaises(t, maxFaults) ==
    /\ req[t].pc = "l139"
    /\ \/ /\ req' = [req EXCEPT
                 ![t].chat_history = OrEmptyList(retrieve_chat_history(db, req[t].chat_id)),
                 ![t].pc = IF retrieve_chat_history(db, req[t].chat_id).none
                           THEN "l148" ELSE "l97"]
          /\ obs' = [obs EXCEPT
                 ![t].steps = Append(@, "load_ok"),
                 ![t].absent = retrieve_chat_history(db, req[t].chat_id).none,
                 ![t].loaded = OrEmptyList(retrieve_chat_history(db, req[t].chat_id))]
          /\ UNCHANGED nfault
       \/ /\ nfault < maxFaults
          /\ req' = [req EXCEPT ![t].pc = "l148"]
          /\ obs' = [obs EXCEPT ![t].steps = Append(@, "load_fail")]
          /\ nfault' = nfault + 1
    /\ UNCHANGED <<db, issued, now, nreq, log>>
    /\ UNCHANGED loadVars

\* line 139: chat_history = retrieve_chat_history(chat_id) or []; the call may raise
L139(t, maxFaults) ==
    /\ req[t].pc = "l139"
    /\ \/ /\ req' = [req EXCEPT
                 ![t].chat_history = OrEmptyList(retrieve_chat_history(db, req[t].chat_id)),
                 ![t].pc = "l97"]
          /\ obs' = [obs EXCEPT
                 ![t].steps = Append(@, "load_ok"),
                 ![t].absent = retrieve_chat_history(db, req[t].chat_id).none,
                 ![t].loaded = OrEmptyList(retrieve_chat_history(db, req[t].chat_id))]
          /\ UNCHANGED nfault
       \/ /\ nfault < maxFaults
          /\ req' = [req EXCEPT ![t].pc = "l148"]
          /\ obs' = [obs EXCEPT ![t].steps = Append(@, "load_fail")]
          /\ nfault' = nfault + 1
    /\ UNCHANGED <<db, issued, now, nreq, log>>
    /\ UNCHANGED loadVars

\* Variant of lines 85-87 that returns another text than the apology.
generate_chatbot_responseLeaksError(user_message, raises) ==
    IF raises THEN "error" ELSE Answer(user_message)

\* lines 78-87: generate_chatbot_response: the chain's answer, or the apology when
\* retrieval_chain.invoke raises
generate_chatbot_response(user_message, raises) ==
    IF raises THEN APOLOGY ELSE Answer(user_message)

\* Variant of line 97 that puts the user's message into the history before the
\* chain is invoked.
L97AsksWithNew(t, maxFaults) ==
    /\ req[t].pc = "l97"
    /\ \/ /\ req' = [req EXCEPT
                 ![t].bot_response = generate_chatbot_response(req[t].user_message, FALSE),
                 ![t].pc = "l99"]
          /\ obs' = [obs EXCEPT ![t].steps = Append(@, "invoke_ok"),
                                ![t].asked = Append(req[t].chat_history,
                                                    Exchange(now, req[t].user_message, ""))]
          /\ UNCHANGED nfault
       \/ /\ nfault < maxFaults
          /\ req' = [req EXCEPT
                 ![t].bot_response = generate_chatbot_response(req[t].user_message, TRUE),
                 ![t].pc = "l99"]
          /\ obs' = [obs EXCEPT ![t].steps = Append(@, "invoke_fail"),
                                ![t].asked = Append(req[t].chat_history,
                                                    Exchange(now, req[t].user_message, ""))]
          /\ nfault' = nfault + 1
    /\ UNCHANGED <<db, issued, now, nreq, log>>
    /\ UNCHANGED loadVars

\* line 97: bot_response = generate_chatbot_response(user_message, chat_history)
L97(t, maxFaults) ==
    /\ req[t].pc = "l97"
    /\ \/ /\ req' = [req EXCEPT
                 ![t].bot_response = generate_chatbot_response(req[t].user_message, FALSE),
                 ![t].pc = "l99"]
          /\ obs' = [obs EXCEPT ![t].steps = Append(@, "invoke_ok"),
                                ![t].asked = req[t].chat_history]
          /\ UNCHANGED nfault
       \/ /\ nfault < maxFaults
          /\ req' = [req EXCEPT
                 ![t].bot_response = generate_chatbot_response(req[t].user_message, TRUE),
                 ![t].pc = "l99"]
          /\ obs' = [obs EXCEPT ![t].steps = Append(@, "invoke_fail"),
                                ![t].asked = req[t].chat_history]
          /\ nfault' = nfault + 1
    /\ UNCHANGED <<db, issued, now, nreq, log>>
    /\ UNCHANGED loadVars

\* lines 99-104: the timestamp is read off the clock (which may have advanced) and
\* the new exchange is appended to the loaded list
L99(t, maxClock) ==
    /\ req[t].pc = "l99"
    /\ \E ts \in now..Min(now + 1, maxClock) :
          /\ now' = ts
          /\ req' = [req EXCEPT
                 ![t].timestamp = ts,
                 ![t].chat_history =
                     Append(@, Exchange(ts, req[t].user_message, req[t].bot_response)),
                 ![t].pc = "l107"]
          /\ log' = [log EXCEPT ![req[t].chat_id].appended =
                     Append(@, Exchange(ts, req[t].user_message, req[t].bot_response))]
    /\ obs' = [obs EXCEPT ![t].steps = Append(@, "append")]
    /\ UNCHANGED <<db, issued, nreq, nfault>>
    /\ UNCHANGED loadVars

\* Variants of line 107: chat_history[:50], and chat_history[-51:].
KeepOldest(chat_history) == SubSeq(chat_history, 1, Min(Len(chat_history), HistoryLimit))

KeepOneMore(chat_history) == LastN(chat_history, HistoryLimit + 1)

\* line 107: chat_history[-50:]
Truncate(chat_history) == LastN(chat_history, HistoryLimit)

L107(t) ==
    /\ req[t].pc = "l107"
    /\ req' = [req EXCEPT ![t].chat_history = Truncate(@), ![t].pc = "l110"]
    /\ obs' = [obs EXCEPT ![t].steps = Append(@, "truncate")]
    /\ UNCHANGED <<db, issued, now, nreq, nfault, log>>
    /\ UNCHANGED loadVars

\* Variant of lines 109-113 without the try: a failed write reaches line 148.
L110Propagates(t, maxFaults) ==
    /\ req[t].pc = "l110"
    /\ \/ /\ db' = store_chat_history(db, req[t].chat_id, req[t].chat_history)
          /\ req' = [req EXCEPT ![t].pc = "l115"]
          /\ obs' = [obs EXCEPT ![t].steps = Append(@, "store_ok"),
                                ![t].handed = req[t].chat_history]
          /\ UNCHANGED <<nfault, log>>
       \/ /\ nfault < maxFaults
          /\ req' = [req EXCEPT ![t].pc = "l148"]
          /\ obs' = [obs EXCEPT ![t].steps = Append(@, "store_fail"),
                                ![t].handed = req[t].chat_history]
          /\ nfault' = nfault + 1
          /\ log' = [log EXCEPT ![req[t].chat_id].failed = @ + 1]
          /\ UNCHANGED db
    /\ UNCHANGED <<issued, now, nreq>>
    /\ UNCHANGED loadVars

\* Variant of line 110 that appends the exchange to the row as it is now.
L110Merges(t, maxFaults) ==
    /\ req[t].pc = "l110"
    /\ \/ /\ db' = store_chat_history(db, req[t].chat_id,
                     LastN(Append(db[req[t].chat_id].history,
                                  Exchange(req[t].timestamp, req[t].user_message,
                                           req[t].bot_response)), HistoryLimit))
          /\ obs' = [obs EXCEPT ![t].steps = Append(@, "store_ok"),
                                ![t].handed = req[t].chat_history]
          /\ UNCHANGED <<nfault, log>>
       \/ /\ nfault < maxFaults
          /\ obs' = [obs EXCEPT ![t].steps = Append(@, "store_fail"),
                                ![t].handed = req[t].chat_history]
          /\ nfault' = nfault + 1
          /\ log' = [log EXCEPT ![req[t].chat_id].failed = @ + 1]
          /\ UNCHANGED db
    /\ req' = [req EXCEPT ![t].pc = "l115"]
    /\ UNCHANGED <<issued, now, nreq>>
    /\ UNCHANGED loadVars

\* Variant of lines 109-113 whose except block writes the history after all.
L110RetriesInExcept(t, maxFaults) ==
    /\ req[t].pc = "l110"
    /\ \/ /\ db' = store_chat_history(db, req[t].chat_id, req[t].chat_history)
          /\ obs' = [obs EXCEPT ![t].steps = Append(@, "store_ok"),
                                ![t].handed = req[t].chat_history]
          /\ UNCHANGED <<nfault, log>>
       \/ /\ nfault < maxFaults
          /\ obs' = [obs EXCEPT ![t].steps = Append(@, "store_fail"),
                                ![t].handed = req[t].chat_history]
          /\ nfault' = nfault + 1
          /\ log' = [log EXCEPT ![req[t].chat_id].failed = @ + 1]
          /\ db' = store_chat_history(db, req[t].chat_id, req[t].chat_history)
    /\ req' = [req EXCEPT ![t].pc = "l115"]
    /\ UNCHANGED <<issued, now, nreq>>
    /\ UNCHANGED loadVars

\* lines 109-113: store_chat_history(chat_id, chat_history); a failure is logged only
L110(t, maxFaults) ==
    /\ req[t].pc = "l110"
    /\ \/ /\ db' = store_chat_history(db, req[t].chat_id, req[t].chat_history)
          /\ obs' = [obs EXCEPT ![t].steps = Append(@, "store_ok"),
                                ![t].handed = req[t].chat_history]
          /\ UNCHANGED <<nfault, log>>
       \/ /\ nfault < maxFaults
          /\ obs' = [obs EXCEPT ![t].steps = Append(@, "store_fail"),
                                ![t].handed = req[t].chat_history]
          /\ nfault' = nfault + 1
          /\ log' = [log EXCEPT ![req[t].chat_id].failed = @ + 1]
          /\ UNCHANGED db
    /\ req' = [req EXCEPT ![t].pc = "l115"]
    /\ UNCHANGED <<issued, now, nreq>>
    /\ UNCHANGED loadVars

\* lines 115, 143-147: return bot_response, chat_history; the 200 response
L115(t) ==
    /\ req[t].pc = "l115"
    /\ req' = [req EXCEPT ![t].resp = Resp200(req[t].bot_response, req[t].chat_history),
                          ![t].pc = "done"]
    /\ obs' = [obs EXCEPT ![t].steps = Append(@, "respond")]
    /\ UNCHANGED <<db, issued, now, nreq, nfault, log>>
    /\ UNCHANGED loadVars

\* lines 148-150: except Exception: the 500 response
L148(t) ==
    /\ req[t].pc = "l148"
    /\ req' = [req EXCEPT ![t].resp = RespError(500, ERR_GENERIC), ![t].pc = "done"]
    /\ UNCHANGED <<db, obs, issued, now, nreq, nfault, log>>
    /\ UNCHANGED loadVars

(***************************************************************************)
(* Specifications                                                          *)
(***************************************************************************)
\* The rows the table may hold when the process starts.
StartRows == {Row(OldHistory(HistoryLimit - 1)), Row(OldHistory(HistoryLimit + PreExtra))}

\* Concurrent request handling by the worker threads, after start-up.
Init == InitLoaded /\ InitChat({NoRow})

Next ==
    \E t \in Workers :
        \/ start_chat(t, MaxRequests)
        \/ ChatRecv(t, MaxRequests, FALSE)
        \/ L129(t)
        \/ L133(t)
        \/ L139(t, MaxFaults)
        \/ L97(t, MaxFaults)
        \/ L99(t, MaxClock)
        \/ L107(t)
        \/ L110(t, MaxFaults)
        \/ L115(t)
        \/ L148(t)

Spec == Init /\ [][Next]_vars

\* One worker serving a long run of valid requests on one chat id, from an empty
\* table: the run of the history past its limit. The table answers every read and
\* write and the run lasts less than a second; the pipeline may fail.
InitSeq == InitLoaded /\ InitChat({NoRow})

NextSeq ==
    \/ ChatRecv(1, HistoryLimit + SeqExtra, TRUE)
    \/ L129(1)
    \/ L133(1)
    \/ L139(1, 0)
    \/ L97(1, SeqFaults)
    \/ L99(1, 0)
    \/ L107(1)
    \/ L110(1, 0)
    \/ L115(1)

SpecSeq == InitSeq /\ [][NextSeq]_vars

\* Concurrent valid requests on a chat id whose stored history is at or over the limit.
InitPre == InitLoaded /\ InitChat(StartRows)

NextPre ==
    \E t \in Workers :
        \/ ChatRecv(t, MaxRequests, TRUE)
        \/ L129(t)
        \/ L133(t)
        \/ L139(t, MaxFaults)
        \/ L97(t, MaxFaults)
        \/ L99(t, MaxClock)
        \/ L107(t)
        \/ L110(t, MaxFaults)
        \/ L115(t)
        \/ L148(t)

SpecPre == InitPre /\ [][NextPre]_vars

\* Threads calling load_model() while the handle is not yet initialised.
InitModel == InitLoad /\ InitChat({NoRow})

NextModel ==
    \E t \in Loaders :
        \/ LoadCall(t)
        \/ L52(t)
        \/ L54(t)
        \/ L55(t)
        \/ L56(t)
        \/ L56Store(t)
        \/ WithExit(t)
        \/ L62(t)
        \/ L65(t)

SpecModel == InitModel /\ [][NextModel]_vars

\* One step of thread t inside a load_model call it has started.
LoadStep(t) ==
    \/ L52(t)
    \/ L54(t)
    \/ L55(t)
    \/ L56(t)
    \/ L56Store(t)
    \/ WithExit(t)
    \/ L62(t)
    \/ L65(t)

\* load_model under a fair scheduler: a thread that can keep running does run, and
\* ChatGroq(...) returns or raises. Nothing obliges a thread to call load_model.
SpecModelFair ==
    InitModel /\ [][NextModel]_vars /\ \A t \in Loaders : WF_vars(LoadStep(t))

(***************************************************************************)
(* Properties of load_model, checked under SpecModel                       *)
(***************************************************************************)
\* C1: however the threads calling load_model() on the uninitialised handle
\* interleave, at most one ChatGroq instance is ever constructed, and every call
\* that returns returns that one instance (never None, never a second instance).
C1_ConstructedOnce ==
    /\ constructed <= 1
    /\ None \notin returned
    /\ Cardinality(returned) <= 1
    /\ \A t \in Loaders :
          lpc[t] = "returned" => /\ constructed = 1
                                 /\ lret[t] = model
                                 /\ lret[t] = 1

\* C1 witness: all threads entered the locked path on their first call, while the
\* handle was uninitialised, and all have returned.
C1_Witness ==
    \A t \in Loaders :
        /\ lpc[t] = "returned"
        /\ lobs[t].calls = 1
        /\ lobs[t].locked
        /\ ~lobs[t].initAtCall

\* C10: a call whose construction failed makes exactly one construction attempt,
\* goes on only to release the lock and re-raise, and returns no handle; no call
\* makes more than one attempt, and a call raises only after a failed construction.
C10_FailurePropagates ==
    \A t \in Loaders :
        /\ lobs[t].attempts <= 1
        /\ lobs[t].failed => /\ lpc[t] \in {"exitx", "l62", "raised"}
                             /\ lobs[t].attempts = 1
                             /\ lret[t] = None
        /\ lpc[t] = "raised" => lobs[t].failed

\* C10 witness: a call has raised after its construction failed, and the handle
\* is still uninitialised.
C10_Witness ==
    \E t \in Loaders : lpc[t] = "raised" /\ lobs[t].failed /\ model = None

(***************************************************************************)
(* Properties of the chat path                                             *)
(***************************************************************************)
Did(t, step) == \E i \in 1..Len(obs[t].steps) : obs[t].steps[i] = step

\* The exchange the current request of worker t appends.
OwnExchange(t) == Exchange(req[t].timestamp, req[t].user_message, req[t].bot_response)

\* C2 (SpecSeq): whenever the worker is between requests and no write of the chat
\* id has failed, the stored history of a chat id that started without a row is the
\* last min(N, 50) of the N exchanges appended for it, in the order they were
\* appended.
C2_StoredIsMostRecent ==
    \A c \in ChatIds :
        (req[1].pc \in {"idle", "done"} /\ log[c].failed = 0) =>
            LET N == Len(log[c].appended)
                keep == IF N <= 50 THEN N ELSE 50
            IN  /\ Len(db[c].history) = keep
                /\ \A i \in 1..keep : db[c].history[i] = log[c].appended[N - keep + i]
                /\ (N > 0 => db[c].present)

\* C2 witness: more than 50 exchanges were appended, every write succeeded, and
\* the last request has been answered.
C2_Witness ==
    /\ req[1].pc = "done"
    /\ req[1].resp.status = 200
    /\ log["c1"].failed = 0
    /\ Len(log["c1"].appended) > 50

\* C3 (SpecPre): the list about to be handed to store_chat_history, every list
\* that was handed to it and every chat_history of a response has at most 50
\* entries, also when the loaded history had 50 entries or more.
C3_AtMostFifty ==
    \A t \in Workers :
        /\ req[t].pc = "l110" => Len(req[t].chat_history) <= 50
        /\ Len(obs[t].handed) <= 50
        /\ Len(req[t].resp.chat_history) <= 50

\* C3 witness: a request loaded more than 50 exchanges and was answered with
\* exactly 50, after handing 50 to the store.
C3_Witness ==
    \E t \in Workers :
        /\ req[t].pc = "done"
        /\ req[t].resp.status = 200
        /\ Len(obs[t].loaded) > 50
        /\ Len(obs[t].handed) = 50
        /\ Len(req[t].resp.chat_history) = 50

C5_WriteFailureInvisible ==
    \A t \in Workers :
        Did(t, "store_fail") =>
            /\ req[t].pc \in {"l115", "done"}
            /\ req[t].pc = "done" =>
                  /\ req[t].resp.status = 200
                  /\ req[t].resp.bot_response = req[t].bot_response
                  /\ Did(t, "invoke_ok") =>
                        req[t].resp.bot_response = Answer(req[t].user_message)
                  /\ Did(t, "invoke_fail") => req[t].resp.bot_response = APOLOGY
                  /\ req[t].resp.chat_history =
                        LastN(Append(obs[t].loaded, OwnExchange(t)), 50)

\* C5 witness: the pipeline answered, the write failed, the response is 200.
C5_Witness ==
    \E t \in Workers :
        /\ req[t].pc = "done"
        /\ Did(t, "invoke_ok")
        /\ Did(t, "store_fail")
        /\ req[t].resp.status = 200
        /\ ~db[req[t].chat_id].present

\* C6 (Spec): when the pipeline invocation failed, the bot_response is the fixed
\* apology, the request still appends the exchange with the apology, hands the
\* list ending in it to the store exactly once, and answers 200 with it.
C6_PipelineFailureApology ==
    \A t \in Workers :
        Did(t, "invoke_fail") =>
            /\ req[t].bot_response = APOLOGY
            /\ req[t].pc \in {"l99", "l107", "l110", "l115", "done"}
            /\ req[t].pc \in {"l115", "done"} =>
                  /\ Count(obs[t].steps, {"store_ok", "store_fail"}) = 1
                  /\ obs[t].handed # <<>>
                  /\ obs[t].handed[Len(obs[t].handed)] =
                        Exchange(req[t].timestamp, req[t].user_message, APOLOGY)
            /\ req[t].pc = "done" =>
                  /\ req[t].resp.status = 200
                  /\ req[t].resp.bot_response = APOLOGY
                  /\ req[t].resp.chat_history = obs[t].handed

\* C6 witness: the pipeline failed, the write succeeded, and the stored history
\* ends with the exchange carrying the apology.
C6_Witness ==
    \E t \in Workers :
        /\ req[t].pc = "done"
        /\ Did(t, "invoke_fail")
        /\ Did(t, "store_ok")
        /\ db[req[t].chat_id].history # <<>>
        /\ db[req[t].chat_id].history[Len(db[req[t].chat_id].history)] =
              Exchange(req[t].timestamp, req[t].user_message, APOLOGY)

\* C7 (Spec): a step that issues a chat id leaves the whole table unchanged, and
\* the row of a chat id changes only in the store step of a /chat request for
\* that chat id.
C7_StartLeavesStore ==
    [][/\ issued' # issued => db' = db
       /\ \A c \in ChatIds :
             db'[c] # db[c] =>
                \E t \in Workers : /\ req[t].pc = "l110"
                                   /\ req[t].chat_id = c
                                   /\ req'[t].pc = "l115"]_vars

\* C7 witness: a chat id was issued and has no row, while another chat id has a
\* stored history.
C7_Witness ==
    /\ Len(issued) >= 1
    /\ ~db[issued[1]].present
    /\ \E c \in ChatIds : db[c].present /\ db[c].history # <<>>

\* C9 (Spec): the store step of a request writes the list built from the history
\* that request loaded, whatever the row holds by then: the last write wins.
C9_LastWriteWins ==
    [][\A t \in Workers :
          (req[t].pc = "l110" /\ obs'[t].steps = Append(obs[t].steps, "store_ok")) =>
              db'[req[t].chat_id] = Row(LastN(Append(obs[t].loaded, OwnExchange(t)), 50))]_vars

\* C9 witness (the lost update): two requests on the same chat id have both been
\* answered 200 after a successful write, and the stored history lacks the
\* exchange of one of them.
C9_Witness ==
    \E t, u \in Workers :
        /\ t # u
        /\ req[t].pc = "done" /\ req[u].pc = "done"
        /\ Did(t, "store_ok") /\ Did(u, "store_ok")
        /\ req[t].chat_id = req[u].chat_id
        /\ \A i \in 1..Len(db[req[t].chat_id].history) :
              db[req[t].chat_id].history[i].user_message # req[t].user_message


\* The kind of a recorded step, without its outcome.
StepKind(step) ==
    CASE step \in {"load_ok", "load_fail"} -> "load"
      [] step \in {"invoke_ok", "invoke_fail"} -> "invoke"
      [] step \in {"store_ok", "store_fail"} -> "store"
      [] OTHER -> step

\* C11 (Spec): the steps of a /chat request are, in this order and each at most
\* once: load, pipeline invocation, append, truncation, store attempt, response.
\* Nothing follows a failed load. The pipeline is invoked with the request's text
\* and with the history as loaded, which does not hold the new exchange; the 200
\* response is given exactly by the requests that made all six steps.
C11_StepOrder ==
    \A t \in Workers :
        LET s == obs[t].steps
            order == <<"load", "invoke", "append", "truncate", "store", "respond">>
        IN  /\ Len(s) <= 6
            /\ \A i \in 1..Len(s) : StepKind(s[i]) = order[i]
            /\ \A i \in 1..Len(s) : s[i] = "load_fail" => i = Len(s)
            /\ Len(s) >= 2 =>
                  /\ obs[t].asked = obs[t].loaded
                  /\ \A i \in 1..Len(obs[t].asked) :
                        obs[t].asked[i].user_message # req[t].json.user_message
            /\ Did(t, "invoke_ok") => req[t].bot_response = Answer(req[t].json.user_message)
            /\ req[t].resp.status = 200 <=> Len(s) = 6
            /\ req[t].resp.status = 200 => req[t].pc = "done"

\* C11 witness: a request that loaded a stored exchange went through all six
\* steps, its write succeeded, and it was answered.
C11_Witness ==
    \E t \in Workers :
        /\ req[t].pc = "done"
        /\ Len(obs[t].loaded) = 1
        /\ obs[t].steps = <<"load_ok", "invoke_ok", "append", "truncate", "store_ok", "respond">>
        /\ Len(req[t].resp.chat_history) = 2


\* C12 (Spec): no failure while a /chat request is handled leaves chat() as an
\* uncaught exception; a request whose load failed goes to the 500 response with
\* the generic message and never calls the store.
C12_FailuresAre500 ==
    \A t \in Workers :
        /\ req[t].pc # "uncaught"
        /\ Did(t, "load_fail") =>
              /\ req[t].pc \in {"l148", "done"}
              /\ req[t].pc = "done" => req[t].resp = RespError(500, ERR_GENERIC)
              /\ ~Did(t, "store_ok") /\ ~Did(t, "store_fail")


\* C13 (SpecModel): a load_model call that started when the handle was already
\* initialised never acquires model_lock: it goes from the unlocked check of line
\* 52 straight to the return of line 65, and returns the handle.
C13_FastPathLockFree ==
    \A t \in Loaders :
        lobs[t].initAtCall =>
            /\ ~lobs[t].locked
            /\ model_lock # t
            /\ lpc[t] \in {"l52", "l65", "returned"}
            /\ lobs[t].attempts = 0
            /\ lpc[t] = "returned" => (lret[t] = model /\ lret[t] # None)

\* C13 witness: a call that started after the initialisation has returned the
\* handle, which another thread had constructed under the lock.
C13_Witness ==
    \E t, u \in Loaders :
        /\ t # u
        /\ lobs[t].initAtCall
        /\ lpc[t] = "returned"
        /\ lret[t] = 1
        /\ lobs[u].locked /\ lobs[u].attempts = 1 /\ lpc[u] = "returned"


\* C14 (Spec): a send-message whose session has no stored history is not an
\* error: the absent history is treated as the empty list, the request is answered
\* with status 200 and a chat_history of exactly one exchange, the one whose
\* user_message was sent.
C14_AbsentIsEmpty ==
    \A t \in Workers :
        (Did(t, "load_ok") /\ obs[t].absent) =>
            /\ obs[t].loaded = <<>>
            /\ req[t].pc # "l148"
            /\ req[t].pc = "done" =>
                  /\ req[t].resp.status = 200
                  /\ Len(req[t].resp.chat_history) = 1
                  /\ req[t].resp.chat_history[1].user_message = req[t].json.user_message
                  /\ req[t].resp.chat_history = <<OwnExchange(t)>>

\* C14 witness: a request for a session that has no row was answered 200 with a
\* one-element history.
C14_Witness ==
    \E t \in Workers :
        /\ req[t].pc = "done"
        /\ Did(t, "load_ok")
        /\ obs[t].absent
        /\ req[t].resp.status = 200
        /\ Len(req[t].resp.chat_history) = 1
        /\ req[t].resp.chat_history[1].user_message = req[t].json.user_message


\* The positions of load_model at which a thread is inside the with block.
InsideWith == {"l55", "l56", "l56s", "exit", "exitx"}

\* C15 (SpecModelFair): model_lock is held only by a thread inside the with block
\* of load_model, never by one that has left it; when the construction fails the
\* lock is released with the handle still uninitialised; a thread that finds the
\* handle uninitialised under the lock attempts the construction, whatever failed
\* before; a call that returns returns an initialised handle; and under fair
\* scheduling every thread waiting for the lock gets it and every call terminates.
C15_LockNeverLeaks ==
    /\ [](\A t \in Loaders :
            /\ model_lock = t <=> lpc[t] \in InsideWith
            /\ lpc[t] = "exitx" => model = None
            /\ lpc[t] = "returned" => lret[t] # None)
    /\ [][\A t \in Loaders :
            /\ (lpc[t] = "exitx" /\ lpc'[t] # "exitx") =>
                  (lpc'[t] = "l62" /\ model_lock' = NoOwner /\ model' = None)
            /\ (lpc[t] = "l55" /\ model = None /\ lpc'[t] # "l55") =>
                  lpc'[t] = "l56"]_vars
    /\ \A t \in Loaders : (lpc[t] = "l54") ~> (lpc[t] = "l55")
    /\ \A t \in Loaders :
            (lpc[t] \notin {"idle", "returned", "raised"}) ~>
                (lpc[t] \in {"returned", "raised"})

\* C15 witness: one call failed in the construction and raised, the lock is free,
\* and a call of another thread that waited for or took the lock afterwards made
\* its own attempt and returned the handle.
C15_Witness ==
    \E t, u \in Loaders :
        /\ t # u
        /\ lpc[t] = "raised"
        /\ lobs[t].failed
        /\ lpc[u] = "returned"
        /\ lobs[u].locked
        /\ lobs[u].attempts = 1
        /\ lret[u] = 1
        /\ model_lock = NoOwner


\* The exchanges of a history, as a set.
Exchanges(h) == {h[i] : i \in 1..Len(h)}

\* C16 (Spec): a send-message whose persistence write failed leaves the stored
\* history as it was: the failing step does not change the store, the list that
\* was handed to the write and returned to the client ends with the new exchange
\* and differs from what is stored, the unsaved exchange is never in the store,
\* and no other request on any session loads or returns it.
C16_UnsavedExchangeLost ==
    /\ [](\A t \in Workers :
            Did(t, "store_fail") =>
                /\ obs[t].handed = LastN(Append(obs[t].loaded, OwnExchange(t)), 50)
                /\ obs[t].handed[Len(obs[t].handed)] = OwnExchange(t)
                /\ OwnExchange(t) \notin Exchanges(db[req[t].chat_id].history)
                /\ obs[t].handed # db[req[t].chat_id].history
                /\ req[t].pc = "done" =>
                      /\ req[t].resp.chat_history = obs[t].handed
                      /\ req[t].resp.chat_history # db[req[t].chat_id].history
                /\ \A u \in Workers \ {t} :
                      /\ OwnExchange(t) \notin Exchanges(obs[u].loaded)
                      /\ OwnExchange(t) \notin Exchanges(req[u].resp.chat_history))
    /\ [][\A t \in Workers :
            (req[t].pc = "l110" /\ obs'[t].steps = Append(obs[t].steps, "store_fail")) =>
                db' = db]_vars

\* C16 witness: the write of one request failed and it was answered; afterwards
\* another request on the same session loaded an empty history, was stored and
\* answered with its own exchange only, although the session had two exchanges.
C16_Witness ==
    \E t, u \in Workers :
        /\ t # u
        /\ req[t].pc = "done" /\ req[u].pc = "done"
        /\ req[t].chat_id = req[u].chat_id
        /\ Did(t, "store_fail")
        /\ req[t].resp.status = 200
        /\ Did(u, "store_ok")
        /\ req[u].resp.status = 200
        /\ log[req[t].chat_id].appended = <<OwnExchange(t), OwnExchange(u)>>
        /\ obs[u].loaded = <<>>
        /\ req[u].resp.chat_history = <<OwnExchange(u)>>
        /\ db[req[t].chat_id] = Row(<<OwnExchange(u)>>)


====
